---- MODULE Spec2Model ----
(***************************************************************************)
(* Model of the Azure MCP example server: the tool entry points of         *)
(* mcp-poc.py and the REST helpers of azure_rest_formcp.py they call       *)
(* (token acquisition, delete_vm with its poll loop, the VM creation       *)
(* chain), and the test runner of azure_rest_formcp.py.  One behaviour of  *)
(* the model is one invocation of one entry point; every HTTP response is  *)
(* an input chosen by the environment.                                     *)
(***************************************************************************)
EXTENDS Integers, Sequences, FiniteSets, TLC

(***************************************************************************)
(* Bounds of the model.                                                    *)
(***************************************************************************)
\* delete_vm(timeout=...) ranges over 1..MaxTimeout (seconds).
MaxTimeout == 2
\* delete_vm(poll_interval=...) ranges over 1..MaxPollInterval (seconds).
MaxPollInterval == 2
\* one poll GET takes 0..MaxGetTime seconds of wall clock.
MaxGetTime == 1
\* delete_vm(timeout=...) ranges over 1..MaxLongTimeout where the clock advances
\* by the sleeps alone (SpecPolling), to let a call make several polls.
MaxLongTimeout == 4
\* the runner polls a deployment for 900 s, sleeping 5 s between polls: the
\* model gives its loop MaxDeployPolls sleeps before the deadline.
MaxDeployPolls == 2
\* an instance view holds up to MaxStatuses status records.
MaxStatuses == 3

(***************************************************************************)
(* Python values.                                                          *)
(***************************************************************************)
\* Python None: also what dict.get / headers.get return for a missing key.
None == "None"

\* bool(v) for the strings the model uses: None and "" are falsy.
Truthy(v) == v /= None /\ v /= ""

\* Python `a or b`: a when a is truthy, else b.
Or(a, b) == IF Truthy(a) THEN a ELSE b

\* str.lower() on the strings the model passes to it.
Lower(s) ==
    CASE s = "TRUE" -> "true"
      [] s = "True" -> "true"
      [] s = "FALSE" -> "false"
      [] s = "False" -> "false"
      [] s = "SUCCEEDED" -> "succeeded"
      [] s = "Succeeded" -> "succeeded"
      [] s = "FAILED" -> "failed"
      [] s = "Failed" -> "failed"
      [] s = "InProgress" -> "inprogress"
      [] OTHER -> s

(***************************************************************************)
(* Poll bodies: the JSON object a poll GET returns.  props tells whether   *)
(* the key "properties" is missing ("absent"), holds null ("null") or      *)
(* holds an object ("object") with the keys status and provisioningState.  *)
(***************************************************************************)
TopLabels == {None, "", "Succeeded", "succeeded", "SUCCEEDED",
              "Failed", "failed", "FAILED", "InProgress"}

\* The values of properties.status and of properties.provisioningState.
NestedStatus == {None, "", "Succeeded", "InProgress"}

NestedProv == {None, "Succeeded", "Failed", "InProgress"}

PollBodies ==
    [tag : {"json"}, status : TopLabels, props : {"object"},
     pstatus : NestedStatus, prov : NestedProv]
    \cup
    [tag : {"json"}, status : TopLabels, props : {"absent", "null"},
     pstatus : {None}, prov : {None}]

\* The value None where a body is expected (a function returning None).
NoneBody == [tag |-> "none", status |-> None, props |-> "absent",
             pstatus |-> None, prov |-> None]

\* The parsed body of a 200 answer to the DELETE itself.
DeleteBody == [tag |-> "json", status |-> None, props |-> "absent",
               pstatus |-> None, prov |-> None]

\* pj.get("properties", {}) is not a dict: the following .get raises
\* AttributeError.  Python evaluates it only when pj.get("status") is falsy.
StatusLabelRaises(b) == ~Truthy(b.status) /\ b.props = "null"

\* pj.get("properties", {}).get(key)
PropGet(b, key) ==
    IF b.props = "object"
    THEN (IF key = "status" THEN b.pstatus ELSE b.prov)
    ELSE None

\* A plausible slip: the nested fields tried in the wrong order.
StatusLabelSwapped(b) ==
    Or(Or(b.status, PropGet(b, "provisioningState")), PropGet(b, "status"))

\* A plausible slip: the top-level status is not looked at.
StatusLabelNestedOnly(b) ==
    Or(PropGet(b, "status"), PropGet(b, "provisioningState"))

\* status = pj.get("status") or pj.get("properties", {}).get("status")
\*          or pj.get("properties", {}).get("provisioningState")
StatusLabel(b) ==
    Or(Or(b.status, PropGet(b, "status")), PropGet(b, "provisioningState"))

\* A plausible slip: only the lower-case spelling is accepted.
IsSucceededLowerOnly(s) == s \in {"succeeded"}

\* status in ("Succeeded", "succeeded")
IsSucceeded(s) == s \in {"Succeeded", "succeeded"}

\* status in ("Failed", "failed")
IsFailed(s) == s \in {"Failed", "failed"}

(***************************************************************************)
(* Outcomes of a helper function (a return or a raised exception) and      *)
(* results of a tool (what crosses the tool boundary).                     *)
(***************************************************************************)
MsgFailed == "VM delete operation failed"
MsgTimeout == "Timed out waiting for VM delete async operation"
MsgDisabled == "Deployments are disabled. Set AZ_RUN_DEPLOY=true to enable."
MsgNoPassword == "admin_password not provided and AZ_TEST_PASS not set"
MsgNoCreds == "Missing Azure credentials in environment"
MsgKwarg == "create_or_update_vm() got an unexpected keyword argument 'os_disk_type'"
MsgVnetNotFound == "vNet no-such-vnet not found in resource group poc"
MsgNameError == "name 'vnet_name' is not defined"

NoOutcome == [kind |-> "none", exc |-> None, msg |-> None, val |-> NoneBody]
Return(v) == [kind |-> "return", exc |-> None, msg |-> None, val |-> v]
Raise(e, m) == [kind |-> "raise", exc |-> e, msg |-> m, val |-> NoneBody]

NoResult == [kind |-> "none", error |-> None, exc |-> None, val |-> NoneBody]
\* json.dumps(<result>)
JsonResult(v) == [kind |-> "json", error |-> None, exc |-> None, val |-> v]
\* json.dumps({"error": message})
ErrorObject(m) == [kind |-> "error", error |-> m, exc |-> None, val |-> NoneBody]
\* an exception that leaves the tool function
Escaped(o) == [kind |-> "escaped", error |-> o.msg, exc |-> o.exc, val |-> NoneBody]

\* except Exception as ex: return json.dumps({"error": str(ex)})
ExceptToError(o) == ErrorObject(o.msg)

(***************************************************************************)
(* State.                                                                  *)
(***************************************************************************)
VARIABLES
    envAtStart,     \* AZ_RUN_DEPLOY in the environment before the server module runs
    azRunDeploy,    \* os.environ["AZ_RUN_DEPLOY"] after the server module ran
    credsSet,       \* the four AZ_* credential variables are all set
    tool,           \* the entry point being run, None when idle
    args,           \* the arguments of the invocation
    pc,             \* position of the invocation
    posts,          \* token POSTs issued
    gets,           \* GETs issued other than poll GETs
    puts,           \* PUTs issued
    deletes,        \* DELETEs issued
    polls,          \* poll GETs issued by delete_vm
    sleeps,         \* time.sleep(poll_interval) calls made by delete_vm
    r,              \* delete_vm: the response to the DELETE
    async_url,      \* delete_vm: the URL to poll
    polledUrl,      \* the URL of the last poll GET
    end_time,       \* delete_vm: the deadline
    now,            \* time.time(), counted from the moment end_time is computed
    pj,             \* delete_vm: the last parsed poll body
    status,         \* delete_vm: the label taken from pj
    chain,          \* deploy_vm: public_ip_id, the NIC request's public IP, nic_id_created
    vm,             \* the compute create-or-update request and the operation it started
    outcome,        \* how the helper function ended
    result,         \* what left the entry point
    instance_view,  \* get_vm_power_state: the instance view it is given
    creds,          \* the credential fields a client or a token is asked with
    called,         \* the function applied to instance_view or creds, "none" before
    ret,            \* how that function ended
    calls,          \* concurrent invocations: position, outcome and record of each
    frames          \* concurrent invocations: the locals of each call of delete_vm

vars == <<envAtStart, azRunDeploy, credsSet, tool, args, pc, posts, gets, puts,
          deletes, polls, sleeps, r, async_url, polledUrl, end_time, now, pj,
          status, chain, vm, outcome, result,
          instance_view, creds, called, ret, calls, frames>>

counters == <<posts, gets, puts, deletes, polls, sleeps>>
deleteVmLocals == <<r, async_url, polledUrl, end_time, now, pj, status>>
config == <<envAtStart, azRunDeploy, credsSet>>
aux == <<instance_view, creds, called, ret, calls, frames>>

(***************************************************************************)
(* Server start: mcp-poc.py module level.                                  *)
(***************************************************************************)
EnvValues == {None, "TRUE", "false"}

\* os.environ["AZ_RUN_DEPLOY"] = os.environ.get("AZ_RUN_DEPLOY", "true")
ForceEnable(env) == IF env = None THEN "true" ELSE env

\* os.environ.get("AZ_RUN_DEPLOY", "false").lower() != "true"
DeployDisabled(flag) == Lower(IF flag = None THEN "false" ELSE flag) /= "true"

Tools == {"list_vms", "deploy_template", "delete_deployment", "deploy_vm",
          "delete_vm_tool"}

MutatingTools == {"deploy_template", "delete_deployment", "deploy_vm",
                  "delete_vm_tool"}

NoArgs == [nic_id |-> None, no_public_ip |-> TRUE, password |-> TRUE,
           template_ok |-> TRUE, timeout |-> 0, poll_interval |-> 0,
           vnet_name |-> None]

\* The virtual networks of the resource group: the named network either is
\* the existing "vnet-jack" (the default of vnet_name) or does not exist.
ExistingVnets == {"vnet-jack"}

VnetNames == {"vnet-jack", "no-such-vnet"}

NoResponse == [status |-> 0, hA |-> None, hL |-> None, text |-> ""]

NoVm == [status |-> 0, nic |-> None, op |-> "none"]

\* The chain's locals, with what it did so far: step is the step begun last,
\* log the steps whose request was issued, in order, pip_bodies the bodies of
\* the public IP PUTs and pip_resp the answer to the last of them.
NoChain == [public_ip_id |-> None, nic_pip |-> None, nic_id_created |-> None,
            step |-> "none", log |-> <<>>, pip_bodies |-> <<>>, pip_resp |-> None]

\* An instance view without the key "statuses".
NoInstanceView == [kind |-> "missing", list |-> <<>>]

\* The four credential fields, all set.
AllCreds == [tenant |-> "set", client_id |-> "set", client_secret |-> "set",
             subscription |-> "set"]

\* How a function applied to instance_view or creds ended: a value returned
\* or an exception raised; network counts the requests it sent.
NoRet == [kind |-> "none", exc |-> None, val |-> None, network |-> 0]

\* The invocations that can run side by side.
Procs == {1, 2}

\* One invocation of delete_vm_tool as its thread and its caller see it: the
\* position, the sleep it is in, the poll GETs it issued, what it gave
\* back, and hist, what it was given: its arguments, the answers to its own
\* requests and its own readings of the clock, in order.
NoCall == [pc |-> "idle", wake |-> 0, polls |-> 0, outcome |-> NoOutcome,
           hist |-> <<>>]

NoCalls == [i \in Procs |-> NoCall]

\* The locals of one call of delete_vm that live from one step to the next.
NoFrame == [timeout |-> 0, poll_interval |-> 0, async_url |-> None, end_time |-> 0]

NoFrames == [i \in Procs |-> NoFrame]

Init ==
    /\ envAtStart \in EnvValues
    /\ azRunDeploy = ForceEnable(envAtStart)
    /\ credsSet \in BOOLEAN
    /\ tool = None
    /\ args = NoArgs
    /\ pc = "idle"
    /\ posts = 0 /\ gets = 0 /\ puts = 0 /\ deletes = 0 /\ polls = 0 /\ sleeps = 0
    /\ r = NoResponse
    /\ async_url = None
    /\ polledUrl = None
    /\ end_time = 0
    /\ now = 0
    /\ pj = NoneBody
    /\ status = None
    /\ chain = NoChain
    /\ vm = NoVm
    /\ outcome = NoOutcome
    /\ result = NoResult
    /\ instance_view = NoInstanceView
    /\ creds = AllCreds
    /\ called = "none"
    /\ ret = NoRet
    /\ calls = NoCalls
    /\ frames = NoFrames

(***************************************************************************)
(* The tool boundary.                                                      *)
(***************************************************************************)
\* A plausible slip: the try block of deploy_vm opened at the compute step only.
InTryComputeOnly(t, p) ==
    \/ t = "deploy_vm" /\ p = "vm"
    \/ t = "delete_vm_tool" /\ p \in {"delete", "loop", "get", "sleep", "sleep_retry"}
    \/ t = "main"

\* The positions of a tool that lie inside its try/except Exception block.
InTry(t, p) ==
    \/ t = "deploy_vm" /\ p \in {"pip1", "pip2", "nic", "vm"}
    \/ t = "delete_vm_tool" /\ p \in {"delete", "loop", "get", "sleep", "sleep_retry"}
    \/ t = "main" /\ p \in {"vm", "main_vnet", "pip1", "pip2", "nic", "main_deploy",
                            "dep_get"}

\* What leaves the tool when the helper it called at position p ended as o.
Boundary(t, p, o) ==
    IF o.kind = "return" THEN JsonResult(o.val)
    ELSE IF InTry(t, p) THEN ExceptToError(o)
    ELSE Escaped(o)

Finish(o) ==
    /\ pc' = "done"
    /\ outcome' = o
    /\ result' = Boundary(tool, pc, o)

(***************************************************************************)
(* Entering a tool: the code before its first HTTP request.                *)
(***************************************************************************)
\* The arguments a tool is called with.  delete_vm_tool passes neither timeout
\* nor poll_interval, so delete_vm runs with its defaults (300 s and 5 s); the
\* model lets both range over small values, the loop using them only to
\* compute the deadline and to advance the clock.
ArgsOf(t) ==
    CASE t = "deploy_vm" ->
           [nic_id : {None, "nic-arg"}, no_public_ip : BOOLEAN, password : BOOLEAN,
            template_ok : {TRUE}, timeout : {0}, poll_interval : {0},
            vnet_name : VnetNames]
      [] t = "deploy_template" ->
           [nic_id : {None}, no_public_ip : {TRUE}, password : {TRUE},
            template_ok : BOOLEAN, timeout : {0}, poll_interval : {0},
            vnet_name : {None}]
      [] t = "delete_vm_tool" ->
           [nic_id : {None}, no_public_ip : {TRUE}, password : {TRUE},
            template_ok : {TRUE}, timeout : 1..MaxTimeout,
            poll_interval : 1..MaxPollInterval, vnet_name : {None}]
      [] OTHER -> {NoArgs}

\* deploy_template alone tests the flag; then every tool calls _get_client(),
\* which raises RuntimeError outside any try block when a credential is missing.
Invoke(t, a) ==
    /\ pc = "idle"
    /\ tool' = t
    /\ args' = a
    /\ IF t = "deploy_template" /\ DeployDisabled(azRunDeploy)
       THEN /\ pc' = "done"
            /\ outcome' = NoOutcome
            /\ result' = ErrorObject(MsgDisabled)
       ELSE IF ~credsSet
       THEN /\ pc' = "done"
            /\ outcome' = Raise("RuntimeError", MsgNoCreds)
            /\ result' = Escaped(Raise("RuntimeError", MsgNoCreds))
       ELSE /\ pc' = "token"
            /\ UNCHANGED <<outcome, result>>
    /\ UNCHANGED <<config, aux, counters, deleteVmLocals, chain, vm>>

\* The environment of the runner: AZ_TEST_NIC_ID, AZ_TEST_NO_PUBLIC_IP and
\* AZ_TEST_VNET_NAME.
MainArgs ==
    [nic_id : {None, "nic-env"}, no_public_ip : BOOLEAN, password : {TRUE},
     template_ok : {TRUE}, timeout : {0}, poll_interval : {0},
     vnet_name : VnetNames]

\* The test runner of azure_rest_formcp.py, run as a script: it exits when a
\* credential is missing.  It runs in its own process, where the server module
\* never set AZ_RUN_DEPLOY.  AZ_DELETE_DEPLOYMENT is not set.
MainStart ==
    /\ pc = "idle"
    /\ tool' = "main"
    /\ args' \in MainArgs
    /\ IF ~credsSet
       THEN /\ pc' = "done"
            /\ outcome' = Raise("SystemExit", "1")
            /\ result' = Escaped(Raise("SystemExit", "1"))
       ELSE /\ pc' = "token"
            /\ UNCHANGED <<outcome, result>>
    /\ UNCHANGED <<config, aux, counters, deleteVmLocals, chain, vm>>

(***************************************************************************)
(* get_access_token: one POST; any failure is raised to the caller, which  *)
(* in every tool calls it outside its try block.  On success the caller    *)
(* goes on to its next request.                                            *)
(***************************************************************************)
TokenResponses == {"ok", "http_error", "conn_error"}

GetAccessToken(resp) ==
    /\ pc = "token"
    /\ posts' = posts + 1
    /\ IF resp = "http_error" THEN Finish(Raise("HTTPError", "401 Client Error"))
       ELSE IF resp = "conn_error" THEN Finish(Raise("ConnectionError", "connection failed"))
       ELSE CASE tool = "list_vms" ->
                   pc' = "list" /\ UNCHANGED <<outcome, result>>
              [] tool = "deploy_template" ->
                   IF args.template_ok
                   THEN pc' = "tmpl_put" /\ UNCHANGED <<outcome, result>>
                   ELSE Finish(Raise("JSONDecodeError", "Expecting value"))
              [] tool = "delete_deployment" ->
                   pc' = "dep_delete" /\ UNCHANGED <<outcome, result>>
              [] tool = "deploy_vm" ->
                   IF ~args.password
                   THEN /\ pc' = "done"
                        /\ outcome' = NoOutcome
                        /\ result' = ErrorObject(MsgNoPassword)
                   ELSE /\ pc' = (IF Truthy(args.nic_id) THEN "vm"
                                  ELSE IF ~args.no_public_ip THEN "pip1" ELSE "nic")
                        /\ UNCHANGED <<outcome, result>>
              [] tool = "delete_vm_tool" ->
                   pc' = "delete" /\ UNCHANGED <<outcome, result>>
              [] tool = "main" ->
                   IF DeployDisabled(envAtStart)
                   THEN /\ pc' = "done"
                        /\ outcome' = NoOutcome
                        /\ result' = JsonResult(NoneBody)
                   ELSE /\ pc' = (IF Truthy(args.nic_id) THEN "main_nic"
                                  ELSE "main_vnet")
                        /\ UNCHANGED <<outcome, result>>
    /\ UNCHANGED <<config, aux, tool, args, gets, puts, deletes, polls, sleeps,
                   deleteVmLocals, chain, vm>>

(***************************************************************************)
(* The one-request tools.                                                  *)
(***************************************************************************)
SimpleResponses == {"ok", "http_error", "conn_error"}

SimpleOutcome(resp, v) ==
    IF resp = "ok" THEN Return(v)
    ELSE IF resp = "http_error" THEN Raise("HTTPError", "400 Client Error")
    ELSE Raise("ConnectionError", "connection failed")

\* list_vms: GET, raise_for_status, return r.json()
ListVms(resp) ==
    /\ pc = "list"
    /\ gets' = gets + 1
    /\ Finish(SimpleOutcome(resp, DeleteBody))
    /\ UNCHANGED <<config, aux, tool, args, posts, puts, deletes, polls, sleeps,
                   deleteVmLocals, chain, vm>>

\* deploy_template: PUT, raise_for_status (printed and re-raised), return r.json()
DeployTemplate(resp) ==
    /\ pc = "tmpl_put"
    /\ puts' = puts + 1
    /\ Finish(SimpleOutcome(resp, DeleteBody))
    /\ UNCHANGED <<config, aux, tool, args, posts, gets, deletes, polls, sleeps,
                   deleteVmLocals, chain, vm>>

\* delete_deployment: DELETE, raise_for_status (printed and re-raised)
DeleteDeployment(resp) ==
    /\ pc = "dep_delete"
    /\ deletes' = deletes + 1
    /\ Finish(SimpleOutcome(resp, NoneBody))
    /\ UNCHANGED <<config, aux, tool, args, posts, gets, puts, polls, sleeps,
                   deleteVmLocals, chain, vm>>

(***************************************************************************)
(* The VM creation chain of deploy_vm: create_public_ip, create_nic,       *)
(* create_or_update_vm.                                                    *)
(***************************************************************************)
PutResponses == {"ok_id", "ok_noid", "ok_badjson", "err_quota", "err_other",
                 "err_undecodable", "conn_error"}

\* j.get("id") or f"{MANAGEMENT_ENDPOINT}/subscriptions/.../{name}"
IdOf(resp, kind) == IF resp = "ok_id" THEN kind \o "-id" ELSE kind \o "-url"

\* How a PUT that did not yield an identifier ends.
PutFailure(resp) ==
    IF resp = "ok_badjson" THEN Raise("JSONDecodeError", "Expecting value")
    ELSE IF resp = "conn_error" THEN Raise("ConnectionError", "connection failed")
    ELSE Raise("HTTPError", "403 Client Error")

\* A plausible slip: every decodable error code leads to the fallback.
IsAnyErrorCode(resp) == resp \in {"err_quota", "err_other"}

\* err_code == "IPv4BasicSkuPublicIpCountLimitReached"
IsBasicSkuQuotaError(resp) == resp = "err_quota"

\* body: {"properties": {"publicIPAllocationMethod": "Dynamic"}}
FirstBody == "Basic/Dynamic"

\* A plausible slip: the retry sends the first body again.
FallbackBodyUnchanged == "Basic/Dynamic"

\* body_std: {"sku": {"name": "Standard"}, "properties": {"publicIPAllocationMethod": "Static"}}
FallbackBody == "Standard/Static"

\* A plausible slip: the tool's except clause deletes what the chain created.
ExceptClauseRollsBack(t) ==
    IF t = "deploy_vm"
    THEN (IF chain.public_ip_id /= None THEN 1 ELSE 0)
         + (IF chain.nic_id_created /= None THEN 1 ELSE 0)
    ELSE 0

\* The DELETE requests the except clause of a tool issues: it returns the
\* error object and does nothing else.
ExceptClauseDeletes(t) == 0

\* create_public_ip, first PUT (Dynamic allocation).  Only the error code
\* IPv4BasicSkuPublicIpCountLimitReached leads to the second PUT.
CreatePublicIp(resp) ==
    /\ pc = "pip1"
    /\ puts' = puts + 1
    /\ LET c == [chain EXCEPT !.step = "public_ip",
                              !.log = Append(@, "public_ip"),
                              !.pip_bodies = Append(@, FirstBody),
                              !.pip_resp = resp]
       IN IF resp \in {"ok_id", "ok_noid"}
          THEN /\ chain' = [c EXCEPT !.public_ip_id = IdOf(resp, "pip")]
               /\ pc' = "nic"
               /\ UNCHANGED <<outcome, result, deletes>>
          ELSE IF IsBasicSkuQuotaError(resp)
          THEN /\ chain' = c
               /\ pc' = "pip2"
               /\ UNCHANGED <<outcome, result, deletes>>
          ELSE /\ chain' = c
               /\ Finish(PutFailure(resp))
               /\ deletes' = deletes + ExceptClauseDeletes(tool)
    /\ UNCHANGED <<config, aux, tool, args, posts, gets, polls, sleeps,
                   deleteVmLocals, vm>>

\* create_public_ip, second PUT (Standard SKU, Static allocation); every
\* failure of it is printed and re-raised.
CreatePublicIpStandard(resp) ==
    /\ pc = "pip2"
    /\ puts' = puts + 1
    /\ LET c == [chain EXCEPT !.pip_bodies = Append(@, FallbackBody),
                              !.pip_resp = resp]
       IN IF resp \in {"ok_id", "ok_noid"}
          THEN /\ chain' = [c EXCEPT !.public_ip_id = IdOf(resp, "pip")]
               /\ pc' = "nic"
               /\ UNCHANGED <<outcome, result, deletes>>
          ELSE /\ chain' = c
               /\ Finish(PutFailure(resp))
               /\ deletes' = deletes + ExceptClauseDeletes(tool)
    /\ UNCHANGED <<config, aux, tool, args, posts, gets, polls, sleeps,
                   deleteVmLocals, vm>>

\* The answers a NIC PUT can get: the provider creates no NIC in a subnet of
\* a network that does not exist.
NicResponses(vnet) ==
    IF vnet \in ExistingVnets THEN PutResponses
    ELSE PutResponses \ {"ok_id", "ok_noid", "ok_badjson"}

\* create_nic: the body names the public IP only when public_ip_id is truthy.
\* A plausible slip: the public IP is never put into the request.
PublicIpRefDropped(id) == None

\* if public_ip_id: ip_conf["properties"]["publicIPAddress"] = {"id": public_ip_id}
PublicIpRef(id) == IF Truthy(id) THEN id ELSE None

CreateNic(resp) ==
    /\ pc = "nic"
    /\ puts' = puts + 1
    /\ LET c == [chain EXCEPT !.step = "nic",
                              !.log = Append(@, "nic"),
                              !.nic_pip = PublicIpRef(chain.public_ip_id)]
       IN IF resp \in {"ok_id", "ok_noid"}
          THEN /\ chain' = [c EXCEPT !.nic_id_created = IdOf(resp, "nic")]
               /\ pc' = (IF tool = "main" THEN "main_deploy" ELSE "vm")
               /\ UNCHANGED <<outcome, result, deletes>>
          ELSE /\ chain' = c
               /\ Finish(PutFailure(resp))
               /\ deletes' = deletes + ExceptClauseDeletes(tool)
    /\ UNCHANGED <<config, aux, tool, args, posts, gets, polls, sleeps,
                   deleteVmLocals, vm>>

\* The keyword parameters create_or_update_vm declares.
CreateOrUpdateVmParams ==
    {"location", "vm_size", "admin_username", "admin_password",
     "image_reference", "os_disk_name", "api_version"}

\* The keyword arguments each caller passes to create_or_update_vm.
KwargsOf(t) ==
    IF t = "deploy_vm"
    THEN {"location", "vm_size", "admin_username", "admin_password",
          "image_reference", "os_disk_type", "os_disk_size_gb", "os_type"}
    ELSE {"location", "vm_size", "admin_username", "admin_password"}

\* Python binds a call only when every keyword names a parameter; otherwise
\* the call raises TypeError before the function body runs.
CallBinds(t) == KwargsOf(t) \subseteq CreateOrUpdateVmParams

VmStatuses == {200, 201, 202, 409}

\* create_or_update_vm: PUT, raise_for_status, return r.json().  A 202 is no
\* error for raise_for_status, so the body is returned with the operation
\* still pending; nothing polls it.
CreateOrUpdateVm(st, json_ok) ==
    /\ pc = "vm"
    /\ LET nic == IF Truthy(args.nic_id) THEN args.nic_id ELSE chain.nic_id_created
           o == IF ~CallBinds(tool) THEN Raise("TypeError", MsgKwarg)
                ELSE IF st >= 400 THEN Raise("HTTPError", "409 Client Error")
                ELSE IF ~json_ok THEN Raise("JSONDecodeError", "Expecting value")
                ELSE Return(DeleteBody)
       IN /\ IF ~CallBinds(tool)
             THEN /\ chain' = [chain EXCEPT !.step = "compute"]
                  /\ UNCHANGED <<puts, vm>>
             ELSE /\ chain' = [chain EXCEPT !.step = "compute",
                                            !.log = Append(@, "compute")]
                  /\ puts' = puts + 1
                  /\ vm' = [status |-> st, nic |-> nic,
                            op |-> IF st = 202 THEN "Pending"
                                   ELSE IF st >= 400 THEN "none" ELSE "Completed"]
          /\ pc' = (IF tool = "main" THEN "main_auto" ELSE "done")
          /\ outcome' = o
          /\ result' = Boundary(tool, pc, o)
          /\ deletes' = deletes + (IF o.kind = "raise"
                                   THEN ExceptClauseDeletes(tool) ELSE 0)
    /\ UNCHANGED <<config, aux, tool, args, posts, gets, polls, sleeps,
                   deleteVmLocals>>

\* The runner verifies AZ_TEST_NIC_ID with a GET before using it: on 200 it
\* calls create_or_update_vm with it; on any other answer, or when the GET
\* fails, it forgets the NIC and goes on to create one.
MainVerifyNic(found) ==
    /\ pc = "main_nic"
    /\ gets' = gets + 1
    /\ IF found
       THEN pc' = "vm" /\ UNCHANGED args
       ELSE pc' = "main_vnet" /\ args' = [args EXCEPT !.nic_id = None]
    /\ UNCHANGED <<config, aux, tool, posts, puts, deletes, polls, sleeps,
                   deleteVmLocals, chain, vm, outcome, result>>

\* After create_or_update_vm the runner enters its auto-create block all the
\* same; vnet_name was never assigned on this path, so building the URL of
\* the network raises NameError, which the block's except clause prints.
MainAutoCreate ==
    /\ pc = "main_auto"
    /\ pc' = "done"
    /\ result' = ErrorObject(MsgNameError)
    /\ UNCHANGED <<config, aux, tool, args, counters, deleteVmLocals, chain, vm, outcome>>

\* The answers the GET of the virtual network can get.
VnetResponses(vnet) ==
    IF vnet \in ExistingVnets THEN {"200", "conn_error"} ELSE {"404", "conn_error"}

\* The runner's check of the virtual network: one GET; any answer but 200,
\* and a failed GET, raise RuntimeError "vNet ... not found in resource
\* group ...", printed by the block's except clause.  The network is never
\* created.
MainVnetCheck(resp) ==
    /\ pc = "main_vnet"
    /\ gets' = gets + 1
    /\ chain' = [chain EXCEPT !.step = "vnet_check", !.log = Append(@, "vnet_check")]
    /\ IF resp = "200"
       THEN /\ pc' = (IF ~args.no_public_ip THEN "pip1" ELSE "nic")
            /\ UNCHANGED <<outcome, result>>
       ELSE Finish(Raise("RuntimeError", MsgVnetNotFound))
    /\ UNCHANGED <<config, aux, tool, args, posts, puts, deletes, polls, sleeps,
                   deleteVmLocals, vm>>

\* The runner creates the VM by deploy_template with a template naming the
\* new NIC; a failure is printed by the inner except clause.
MainDeployTemplate(resp) ==
    /\ pc = "main_deploy"
    /\ puts' = puts + 1
    /\ chain' = [chain EXCEPT !.step = "compute", !.log = Append(@, "compute")]
    /\ IF resp = "ok"
       THEN /\ vm' = [status |-> 201, nic |-> chain.nic_id_created, op |-> "Pending"]
            /\ outcome' = Return(DeleteBody)
            /\ now' = 0
            /\ end_time' = MaxDeployPolls
            /\ pc' = "dep_loop"
            /\ UNCHANGED result
       ELSE /\ Finish(SimpleOutcome(resp, DeleteBody))
            /\ UNCHANGED <<vm, now, end_time>>
    /\ UNCHANGED <<config, aux, tool, args, posts, gets, deletes, polls, sleeps,
                   r, async_url, polledUrl, pj, status>>

\* while time.time() < end_time: ...; without a final state the runner
\* prints that it timed out and leaves the deployment record.
MainDeployLoopTest ==
    /\ pc = "dep_loop"
    /\ IF now < end_time
       THEN pc' = "dep_get" /\ UNCHANGED <<vm, result>>
       ELSE /\ pc' = "done"
            /\ vm' = [vm EXCEPT !.op = "TimedOut"]
            /\ result' = JsonResult(NoneBody)
    /\ UNCHANGED <<config, aux, tool, args, counters, deleteVmLocals, chain, outcome>>

DeploymentStates == {None, "Running", "Succeeded", "Failed", "Canceled"}

\* One poll of the deployment: an error status or an undecodable body is
\* printed and retried after a sleep (answer "error"); a failed GET leaves
\* the loop and is printed by the inner except clause; a terminal
\* provisioningState ends the loop.
MainDeployPoll(answer) ==
    /\ pc = "dep_get"
    /\ gets' = gets + 1
    /\ IF answer = "conn_error"
       THEN Finish(Raise("ConnectionError", "connection failed")) /\ UNCHANGED vm
       ELSE IF answer \in {"Succeeded", "Failed", "Canceled"}
       THEN /\ vm' = [vm EXCEPT !.op = answer]
            /\ pc' = "dep_close"
            /\ UNCHANGED <<outcome, result>>
       ELSE /\ pc' = "dep_sleep"
            /\ UNCHANGED <<vm, outcome, result>>
    /\ UNCHANGED <<config, aux, tool, args, posts, puts, deletes, polls, sleeps,
                   deleteVmLocals, chain>>

\* time.sleep(5)
MainDeploySleep ==
    /\ pc = "dep_sleep"
    /\ now' = now + 1
    /\ pc' = "dep_loop"
    /\ UNCHANGED <<config, aux, tool, args, counters, r, async_url, polledUrl,
                   end_time, pj, status, chain, vm, outcome, result>>

\* With a final state: the operations of a deployment that did not succeed
\* are fetched, then the deployment record is deleted; failures of either
\* request are printed.
MainDeployClose ==
    /\ pc = "dep_close"
    /\ gets' = gets + (IF vm.op /= "Succeeded" THEN 1 ELSE 0)
    /\ deletes' = deletes + 1
    /\ pc' = "done"
    /\ result' = JsonResult(NoneBody)
    /\ UNCHANGED <<config, aux, tool, args, posts, puts, polls, sleeps,
                   deleteVmLocals, chain, vm, outcome>>

(***************************************************************************)
(* delete_vm.                                                              *)
(***************************************************************************)
OpUrl == "https://management.azure.com/operations/1"
LocUrl == "https://management.azure.com/locations/1"

DeleteStatuses == {200, 201, 202, 204, 304, 404}

\* The responses a DELETE can get: headers matter for a 202 only and the
\* body text for a 200 or 204 only, so the others carry none.
DeleteResponses ==
    [status : {202}, hA : {None, "", OpUrl}, hL : {None, LocUrl}, text : {""}]
    \cup
    [status : {200, 204}, hA : {None}, hL : {None}, text : {"", "json", "garbage"}]
    \cup
    [status : {201, 304, 404}, hA : {None}, hL : {None}, text : {""}]

\* A plausible slip: the generic Location header tried first.
AsyncUrlLocationFirst(resp) == Or(resp.hL, resp.hA)

\* A plausible slip: without a header, the URL of the DELETE itself is polled.
AsyncUrlOrRequestUrl(resp) == Or(Or(resp.hA, resp.hL), "https://management.azure.com/vm")

\* async_url = r.headers.get("Azure-AsyncOperation") or r.headers.get("Location")
AsyncUrl(resp) == Or(resp.hA, resp.hL)

\* return r.json() if r.text else None, any exception of r.json() giving None
ImmediateValue(resp) == IF resp.text = "json" THEN DeleteBody ELSE NoneBody

\* r.raise_for_status() raises HTTPError for a status of 400 to 599 only.
RaisesForStatus(st) == st >= 400 /\ st < 600

\* A plausible slip: timeout taken for a number of attempts.
EndTimeAsAttempts(start, timeout) == start + timeout * args.poll_interval

\* end_time = time.time() + timeout
EndTime(start, timeout) == start + timeout

\* A plausible slip: a poll answered with an error status is repeated at once.
PollFailsNoSleep(kind, d) ==
    /\ pc = "get"
    /\ polls' = polls + 1
    /\ polledUrl' = async_url
    /\ now' = now + d
    /\ IF kind = "http_error"
       THEN pc' = "loop" /\ UNCHANGED <<outcome, result>>
       ELSE IF kind = "conn_error"
       THEN Finish(Raise("ConnectionError", "connection failed"))
       ELSE Finish(Raise("JSONDecodeError", "Expecting value"))
    /\ UNCHANGED <<config, aux, tool, args, posts, gets, puts, deletes, sleeps,
                   r, async_url, end_time, pj, status, chain, vm>>

\* A plausible slip: a DELETE that could not be sent is sent once more.
DeleteVmSendRetries ==
    /\ pc = "delete"
    /\ deletes < 2
    /\ deletes' = deletes + 1
    /\ UNCHANGED <<config, aux, tool, args, pc, posts, gets, puts, polls, sleeps,
                   deleteVmLocals, chain, vm, outcome, result>>

\* requests.delete itself fails: the exception is no HTTPError and leaves delete_vm.
DeleteVmSendFails ==
    /\ pc = "delete"
    /\ deletes' = deletes + 1
    /\ Finish(Raise("ConnectionError", "connection failed"))
    /\ UNCHANGED <<config, aux, tool, args, posts, gets, puts, polls, sleeps,
                   deleteVmLocals, chain, vm>>

\* The DELETE and the classification of its response.
DeleteVmSend(resp) ==
    /\ pc = "delete"
    /\ deletes' = deletes + 1
    /\ r' = resp
    /\ IF resp.status \in {200, 204}
       THEN /\ Finish(Return(ImmediateValue(resp)))
            /\ UNCHANGED <<async_url, end_time, now>>
       ELSE IF resp.status = 202
       THEN /\ async_url' = AsyncUrl(resp)
            /\ IF ~Truthy(AsyncUrl(resp))
               THEN /\ Finish(Return(NoneBody))
                    /\ UNCHANGED <<end_time, now>>
               ELSE /\ now' = 0
                    /\ end_time' = EndTime(0, args.timeout)
                    /\ pc' = "loop"
                    /\ UNCHANGED <<outcome, result>>
       ELSE /\ IF RaisesForStatus(resp.status)
               THEN Finish(Raise("HTTPError", "404 Client Error"))
               ELSE Finish(Return(NoneBody))
            /\ UNCHANGED <<async_url, end_time, now>>
    /\ UNCHANGED <<config, aux, tool, args, posts, gets, puts, polls, sleeps,
                   polledUrl, pj, status, chain, vm>>

\* A plausible slip: falling out of the loop returns None.
AfterLoopReturnsNone == Return(NoneBody)

\* raise TimeoutError("Timed out waiting for VM delete async operation")
AfterLoop == Raise("TimeoutError", MsgTimeout)

\* while time.time() < end_time: ... ; after the loop the timeout is raised.
LoopTest ==
    /\ pc = "loop"
    /\ IF now < end_time
       THEN pc' = "get" /\ UNCHANGED <<outcome, result>>
       ELSE Finish(AfterLoop)
    /\ UNCHANGED <<config, aux, tool, args, counters, deleteVmLocals, chain, vm>>

\* What one poll GET can bring: the request fails, the status is an error,
\* the body is no JSON, or the body is a JSON object.
PollFailures == {"conn_error", "http_error", "bad_json"}

\* A poll GET that yields no body: an error status is printed and retried
\* after a sleep; a failed request or an undecodable body raises out of
\* delete_vm (neither is caught inside the loop).
PollFails(kind, d) ==
    /\ pc = "get"
    /\ polls' = polls + 1
    /\ polledUrl' = async_url
    /\ now' = now + d
    /\ IF kind = "http_error"
       THEN pc' = "sleep_retry" /\ UNCHANGED <<outcome, result>>
       ELSE IF kind = "conn_error"
       THEN Finish(Raise("ConnectionError", "connection failed"))
       ELSE Finish(Raise("JSONDecodeError", "Expecting value"))
    /\ UNCHANGED <<config, aux, tool, args, posts, gets, puts, deletes, sleeps,
                   r, async_url, end_time, pj, status, chain, vm>>

\* A poll GET answered with a JSON object: extract the label and classify it.
PollBody(b, d) ==
    /\ pc = "get"
    /\ polls' = polls + 1
    /\ polledUrl' = async_url
    /\ now' = now + d
    /\ pj' = b
    /\ IF StatusLabelRaises(b)
       THEN /\ Finish(Raise("AttributeError", "'NoneType' object has no attribute 'get'"))
            /\ UNCHANGED status
       ELSE /\ status' = StatusLabel(b)
            /\ IF IsSucceeded(StatusLabel(b)) THEN Finish(Return(b))
               ELSE IF IsFailed(StatusLabel(b)) THEN Finish(Raise("Exception", MsgFailed))
               ELSE pc' = "sleep" /\ UNCHANGED <<outcome, result>>
    /\ UNCHANGED <<config, aux, tool, args, posts, gets, puts, deletes, sleeps,
                   r, async_url, end_time, chain, vm>>

\* time.sleep(poll_interval), after a pending label or after an error status.
Sleep ==
    /\ pc \in {"sleep", "sleep_retry"}
    /\ sleeps' = sleeps + 1
    /\ now' = now + args.poll_interval
    /\ pc' = "loop"
    /\ UNCHANGED <<config, aux, tool, args, posts, gets, puts, deletes, polls,
                   r, async_url, polledUrl, end_time, pj, status, chain, vm,
                   outcome, result>>

(***************************************************************************)
(* Specification.                                                          *)
(***************************************************************************)
Next ==
    \/ \E t \in Tools : \E a \in ArgsOf(t) : Invoke(t, a)
    \/ MainStart
    \/ \E resp \in TokenResponses : GetAccessToken(resp)
    \/ \E resp \in SimpleResponses : ListVms(resp)
    \/ \E resp \in SimpleResponses : DeployTemplate(resp)
    \/ \E resp \in SimpleResponses : DeleteDeployment(resp)
    \/ \E resp \in PutResponses : CreatePublicIp(resp)
    \/ \E resp \in PutResponses : CreatePublicIpStandard(resp)
    \/ \E resp \in NicResponses(args.vnet_name) : CreateNic(resp)
    \/ \E st \in VmStatuses : \E json_ok \in BOOLEAN : CreateOrUpdateVm(st, json_ok)
    \/ \E found \in BOOLEAN : MainVerifyNic(found)
    \/ MainAutoCreate
    \/ \E resp \in VnetResponses(args.vnet_name) : MainVnetCheck(resp)
    \/ \E resp \in SimpleResponses : MainDeployTemplate(resp)
    \/ MainDeployLoopTest
    \/ \E answer \in DeploymentStates \cup {"error", "conn_error"} : MainDeployPoll(answer)
    \/ MainDeploySleep
    \/ MainDeployClose
    \/ DeleteVmSendFails
    \/ \E resp \in DeleteResponses : DeleteVmSend(resp)
    \/ LoopTest
    \/ \E kind \in PollFailures : \E d \in 0..MaxGetTime : PollFails(kind, d)
    \/ \E b \in PollBodies : \E d \in 0..MaxGetTime : PollBody(b, d)
    \/ Sleep

Spec == Init /\ [][Next]_vars

(***************************************************************************)
(* delete_vm_tool alone, with the clock advancing by the sleeps only (a    *)
(* poll GET takes no time), longer timeouts, and poll bodies that carry    *)
(* their label, if any, in the top-level status.                           *)
(***************************************************************************)
PollingArgs ==
    [nic_id : {None}, no_public_ip : {TRUE}, password : {TRUE},
     template_ok : {TRUE}, timeout : 1..MaxLongTimeout,
     poll_interval : 1..MaxPollInterval, vnet_name : {None}]

LabelBodies ==
    {b \in PollBodies :
        b.props = "absent" /\ b.status \in {None, "InProgress", "Succeeded", "Failed"}}

NextPolling ==
    \/ \E a \in PollingArgs : Invoke("delete_vm_tool", a)
    \/ \E resp \in TokenResponses : GetAccessToken(resp)
    \/ DeleteVmSendFails
    \/ \E resp \in DeleteResponses : DeleteVmSend(resp)
    \/ LoopTest
    \/ \E kind \in PollFailures : PollFails(kind, 0)
    \/ \E b \in LabelBodies : PollBody(b, 0)
    \/ Sleep

SpecPolling == Init /\ [][NextPolling]_vars

\* The invocation always goes on: a request is answered or fails, a sleep
\* returns.
SpecPollingFair == SpecPolling /\ WF_vars(NextPolling)

(***************************************************************************)
(* The functions without a position of their own: get_vm_power_state with  *)
(* its wrapper get_vm_power_state_safe, and the ways to a client and to a  *)
(* token (AzureClient.from_env, AzureClient.__init__, get_access_token).   *)
(* The initial state draws the argument; one action applies one function.  *)
(***************************************************************************)
\* The key "code" is missing from a status record.
Absent == "<absent>"

\* What a status record holds under "code": a string, null, or nothing.
CodeValues == {"PowerState/running", "PowerState/deallocated",
               "ProvisioningState/succeeded", "PowerState", "", None, Absent}

StatusRecords == [code : CodeValues]

\* The lists of at most n status records.
RECURSIVE StatusLists(_)
StatusLists(n) ==
    IF n = 0 THEN {<<>>}
    ELSE LET shorter == StatusLists(n - 1)
         IN shorter \cup {Append(l, rec) : l \in {x \in shorter : Len(x) = n - 1},
                                           rec \in StatusRecords}

\* The instance views: "statuses" missing, null, or a list of records.
InstanceViews ==
    {[kind |-> "missing", list |-> <<>>], [kind |-> "null", list |-> <<>>]}
    \cup {[kind |-> "list", list |-> l] : l \in StatusLists(MaxStatuses)}

\* code.split("/", 1) on the strings of CodeValues.
Split(code) ==
    CASE code = "PowerState/running" -> <<"PowerState", "running">>
      [] code = "PowerState/deallocated" -> <<"PowerState", "deallocated">>
      [] code = "ProvisioningState/succeeded" -> <<"ProvisioningState", "succeeded">>
      [] OTHER -> <<code>>

\* code.startswith("PowerState/")
StartsWithPowerState(code) == Len(Split(code)) = 2 /\ Split(code)[1] = "PowerState"

\* s.get("code", ""): the default stands in for a missing key only.
CodeOf(rec) == IF rec.code = Absent THEN "" ELSE rec.code

Returned(v) == [kind |-> "return", exc |-> None, val |-> v, network |-> 0]
Raised(e) == [kind |-> "raise", exc |-> e, val |-> None, network |-> 0]

\* The loop of get_vm_power_state from record i on: a null code has no
\* startswith, and the call raises AttributeError at that record.
RECURSIVE ScanStatuses(_, _)
ScanStatuses(l, i) ==
    IF i > Len(l) THEN Returned(None)
    ELSE IF CodeOf(l[i]) = None THEN Raised("AttributeError")
    ELSE IF StartsWithPowerState(CodeOf(l[i])) THEN Returned(Split(CodeOf(l[i]))[2])
    ELSE ScanStatuses(l, i + 1)

\* statuses = instance_view.get("statuses") or []
StatusesOf(iv) == IF iv.kind = "list" THEN iv.list ELSE <<>>

\* get_vm_power_state(instance_view)
GetVmPowerStateOf(iv) == ScanStatuses(StatusesOf(iv), 1)

GetVmPowerState ==
    /\ called = "none"
    /\ called' = "get_vm_power_state"
    /\ ret' = GetVmPowerStateOf(instance_view)
    /\ UNCHANGED <<config, tool, args, pc, counters, deleteVmLocals, chain, vm,
                   outcome, result, instance_view, creds, calls, frames>>

\* AzureClient.get_vm_power_state_safe: token, instance view, interpreter,
\* all in one try; every exception gives None.  fetched tells whether the
\* token POST and the instance view GET succeeded.
GetVmPowerStateSafe(fetched) ==
    /\ called = "none"
    /\ called' = "get_vm_power_state_safe"
    /\ ret' = LET o == GetVmPowerStateOf(instance_view)
              IN [(IF fetched /\ o.kind = "return" THEN o ELSE Returned(None))
                    EXCEPT !.network = IF fetched THEN 2 ELSE 1]
    /\ UNCHANGED <<config, tool, args, pc, counters, deleteVmLocals, chain, vm,
                   outcome, result, instance_view, creds, calls, frames>>

\* A credential field as the environment or a caller gives it.
FieldValues == {None, "", "set"}

CredTuples == [tenant : FieldValues, client_id : FieldValues,
               client_secret : FieldValues, subscription : FieldValues]

\* all([tenant, client_id, client_secret, subscription])
AllFields(c) ==
    Truthy(c.tenant) /\ Truthy(c.client_id) /\ Truthy(c.client_secret)
      /\ Truthy(c.subscription)

\* AzureClient.from_env: RuntimeError when a field is missing or empty.
FromEnv ==
    /\ called = "none"
    /\ called' = "from_env"
    /\ ret' = IF ~AllFields(creds) THEN Raised("RuntimeError") ELSE Returned("client")
    /\ UNCHANGED <<config, tool, args, pc, counters, deleteVmLocals, chain, vm,
                   outcome, result, instance_view, creds, calls, frames>>

\* AzureClient.__init__: stores the four fields as given.
ClientInit ==
    /\ called = "none"
    /\ called' = "__init__"
    /\ ret' = Returned("client")
    /\ UNCHANGED <<config, tool, args, pc, counters, deleteVmLocals, chain, vm,
                   outcome, result, instance_view, creds, calls, frames>>

\* get_access_token(tenant_id, client_id, client_secret): builds the URL and
\* the form from the fields as given and sends the POST.
GetAccessTokenWith(resp) ==
    /\ called = "none"
    /\ called' = "get_access_token"
    /\ ret' = [(IF resp = "ok" THEN Returned("token")
                ELSE IF resp = "http_error" THEN Raised("HTTPError")
                ELSE Raised("ConnectionError"))
                 EXCEPT !.network = 1]
    /\ UNCHANGED <<config, tool, args, pc, counters, deleteVmLocals, chain, vm,
                   outcome, result, instance_view, creds, calls, frames>>

InitFunctions ==
    /\ envAtStart = None
    /\ azRunDeploy = ForceEnable(envAtStart)
    /\ credsSet = TRUE
    /\ tool = None
    /\ args = NoArgs
    /\ pc = "idle"
    /\ posts = 0 /\ gets = 0 /\ puts = 0 /\ deletes = 0 /\ polls = 0 /\ sleeps = 0
    /\ r = NoResponse
    /\ async_url = None
    /\ polledUrl = None
    /\ end_time = 0
    /\ now = 0
    /\ pj = NoneBody
    /\ status = None
    /\ chain = NoChain
    /\ vm = NoVm
    /\ outcome = NoOutcome
    /\ result = NoResult
    /\ \/ instance_view \in InstanceViews /\ creds = AllCreds
       \/ instance_view = NoInstanceView /\ creds \in CredTuples
    /\ called = "none"
    /\ ret = NoRet
    /\ calls = NoCalls
    /\ frames = NoFrames

NextFunctions ==
    \/ GetVmPowerState
    \/ \E fetched \in BOOLEAN : GetVmPowerStateSafe(fetched)
    \/ FromEnv
    \/ ClientInit
    \/ \E resp \in TokenResponses : GetAccessTokenWith(resp)

SpecFunctions == InitFunctions /\ [][NextFunctions]_vars

(***************************************************************************)
(* Two invocations of delete_vm_tool side by side.  Every request, every   *)
(* reading of the clock and every sleep is a step of its own, and the      *)
(* steps of the two interleave freely.  The wall clock, now, is the only   *)
(* thing both read; nothing in the program writes it.                      *)
(***************************************************************************)
\* A plausible slip: the locals kept in one place for all invocations (a
\* module-level variable, a shared client object).
SlotShared(i) == 1

\* Where invocation i keeps the locals of its call of delete_vm: in the
\* frame of that call.
Slot(i) == i

MaxClock == 2

ConcurrentArgs == [timeout : 1..MaxTimeout, poll_interval : {1}]

\* What a poll GET brings in this specification.
ConcurrentAnswers ==
    [fail : {"http_error"}, body : {NoneBody}]
    \cup [fail : {None}, body : {b \in LabelBodies : b.status \in {"Succeeded", "Failed"}}]

ConcurrentDeleteResponses ==
    {resp \in DeleteResponses :
        \/ resp.status = 202 /\ resp.hL = None /\ resp.hA \in {None, OpUrl}
        \/ resp.status = 404}

\* One entry of hist.
Event(ev, t, a, resp, answer) ==
    [ev |-> ev, t |-> t, timeout |-> a.timeout, poll_interval |-> a.poll_interval,
     resp |-> resp, fail |-> answer.fail, body |-> answer.body]

NoAnswer == [fail |-> None, body |-> NoneBody]

\* The state of one call of delete_vm run on its own.
NoLocals == [pc |-> "idle", timeout |-> 0, poll_interval |-> 0, async_url |-> None,
             end_time |-> 0, polls |-> 0, outcome |-> NoOutcome]

\* delete_vm_tool entered with its arguments; the token is taken for granted.
AfterCall(st, a) ==
    [st EXCEPT !.pc = "delete", !.timeout = a.timeout,
               !.poll_interval = a.poll_interval]

\* The DELETE answered with resp at time t.
AfterDelete(st, resp, t) ==
    IF resp.status \in {200, 204}
    THEN [st EXCEPT !.pc = "done", !.outcome = Return(ImmediateValue(resp))]
    ELSE IF resp.status = 202
    THEN (IF ~Truthy(AsyncUrl(resp))
          THEN [st EXCEPT !.pc = "done", !.async_url = AsyncUrl(resp),
                          !.outcome = Return(NoneBody)]
          ELSE [st EXCEPT !.pc = "loop", !.async_url = AsyncUrl(resp),
                          !.end_time = EndTime(t, st.timeout)])
    ELSE IF RaisesForStatus(resp.status)
    THEN [st EXCEPT !.pc = "done", !.outcome = Raise("HTTPError", "404 Client Error")]
    ELSE [st EXCEPT !.pc = "done", !.outcome = Return(NoneBody)]

\* while time.time() < end_time, the clock read as t.
AfterTest(st, t) ==
    IF t < st.end_time THEN [st EXCEPT !.pc = "get"]
    ELSE [st EXCEPT !.pc = "done", !.outcome = AfterLoop]

\* One poll GET and what follows it up to the sleep.
AfterPoll(st, answer) ==
    LET polled == [st EXCEPT !.polls = st.polls + 1]
    IN IF answer.fail = "http_error" THEN [polled EXCEPT !.pc = "sleep"]
       ELSE IF answer.fail = "conn_error"
       THEN [polled EXCEPT !.pc = "done",
                           !.outcome = Raise("ConnectionError", "connection failed")]
       ELSE IF StatusLabelRaises(answer.body)
       THEN [polled EXCEPT !.pc = "done",
                           !.outcome = Raise("AttributeError",
                                             "'NoneType' object has no attribute 'get'")]
       ELSE IF IsSucceeded(StatusLabel(answer.body))
       THEN [polled EXCEPT !.pc = "done", !.outcome = Return(answer.body)]
       ELSE IF IsFailed(StatusLabel(answer.body))
       THEN [polled EXCEPT !.pc = "done", !.outcome = Raise("Exception", MsgFailed)]
       ELSE [polled EXCEPT !.pc = "sleep"]

\* time.sleep(poll_interval) returned.
AfterSleep(st) == [st EXCEPT !.pc = "loop"]

\* Invocation i as it stands: its position and what it gave back, with the
\* locals found in its slot.
View(i) ==
    [pc |-> calls[i].pc, timeout |-> frames[Slot(i)].timeout,
     poll_interval |-> frames[Slot(i)].poll_interval,
     async_url |-> frames[Slot(i)].async_url, end_time |-> frames[Slot(i)].end_time,
     polls |-> calls[i].polls, outcome |-> calls[i].outcome]

\* Invocation i moves to st, having been given the event e.
Store(i, st, wake, e) ==
    /\ calls' = [calls EXCEPT ![i] = [pc |-> st.pc, wake |-> wake, polls |-> st.polls,
                                      outcome |-> st.outcome,
                                      hist |-> IF e = <<>> THEN calls[i].hist
                                               ELSE Append(calls[i].hist, e[1])]]
    /\ frames' = [frames EXCEPT ![Slot(i)] =
                      [timeout |-> st.timeout, poll_interval |-> st.poll_interval,
                       async_url |-> st.async_url, end_time |-> st.end_time]]
    /\ UNCHANGED <<config, tool, args, pc, counters, r, async_url, polledUrl,
                   end_time, pj, status, chain, vm, outcome, result,
                   instance_view, creds, called, ret>>

ConcurrentCall(i, a) ==
    /\ calls[i].pc = "idle"
    /\ Store(i, AfterCall(View(i), a), 0, <<Event("call", now, a, NoResponse, NoAnswer)>>)
    /\ UNCHANGED now

ConcurrentDelete(i, resp) ==
    /\ calls[i].pc = "delete"
    /\ Store(i, AfterDelete(View(i), resp, now), 0,
             <<Event("delete", now, NoFrame, resp, NoAnswer)>>)
    /\ UNCHANGED now

ConcurrentLoopTest(i) ==
    /\ calls[i].pc = "loop"
    /\ Store(i, AfterTest(View(i), now), 0,
             <<Event("clock", now, NoFrame, NoResponse, NoAnswer)>>)
    /\ UNCHANGED now

ConcurrentPoll(i, answer) ==
    /\ calls[i].pc = "get"
    /\ Store(i, AfterPoll(View(i), answer), now + View(i).poll_interval,
             <<Event("poll", now, NoFrame, NoResponse, answer)>>)
    /\ UNCHANGED now

\* time.sleep returns once poll_interval has passed.
ConcurrentSleep(i) ==
    /\ calls[i].pc = "sleep"
    /\ now >= calls[i].wake
    /\ Store(i, AfterSleep(View(i)), 0, <<>>)
    /\ UNCHANGED now

\* Time passes.
Tick ==
    /\ now < MaxClock
    /\ now' = now + 1
    /\ UNCHANGED <<config, aux, tool, args, pc, counters, r, async_url, polledUrl,
                   end_time, pj, status, chain, vm, outcome, result>>

InitConcurrent ==
    /\ InitFunctions
    /\ instance_view = NoInstanceView
    /\ creds = AllCreds

NextConcurrent ==
    \/ \E i \in Procs, a \in ConcurrentArgs : ConcurrentCall(i, a)
    \/ \E i \in Procs, resp \in ConcurrentDeleteResponses : ConcurrentDelete(i, resp)
    \/ \E i \in Procs : ConcurrentLoopTest(i)
    \/ \E i \in Procs, answer \in ConcurrentAnswers : ConcurrentPoll(i, answer)
    \/ \E i \in Procs : ConcurrentSleep(i)
    \/ Tick

SpecConcurrent == InitConcurrent /\ [][NextConcurrent]_vars

(***************************************************************************)
(* Properties.                                                             *)
(***************************************************************************)
\* delete_vm got a 202 with a URL to poll.
Accepted == r.status = 202 /\ Truthy(async_url)

\* A header or a JSON field is present when it carries a value: the code's
\* `or` chains take null and "" for absent, and so do the properties below.
Present(v) == Truthy(v)

\* C1: in delete_vm, after a 202 with a poll URL, when the loop finds the
\* deadline passed and no poll has returned a terminal label, the call ends
\* by raising TimeoutError, which differs in type and message from the
\* provider-reported failure; and the call returns normally only with a
\* body whose label is Succeeded.
C1_TimeoutIsDistinctFailure ==
    /\ []((pc = "done" /\ Accepted /\ outcome.kind = "return")
            => (IsSucceeded(status) /\ outcome.val = pj))
    /\ [][(pc = "loop" /\ ~(now < end_time))
            => /\ pc' = "done"
               /\ outcome' = Raise("TimeoutError", MsgTimeout)
               /\ outcome'.exc /= "Exception"
               /\ outcome'.msg /= MsgFailed
               /\ (tool = "delete_vm_tool" =>
                     result' = ErrorObject(MsgTimeout))]_vars

C1_Witness ==
    /\ pc = "done" /\ Accepted
    /\ outcome.exc = "TimeoutError"
    /\ polls >= 2 /\ status = "InProgress"

\* C2 (as claimed): a label that is "succeeded" in any casing ends the loop
\* with success, one that is "failed" in any casing ends it with failure,
\* and every other label leaves delete_vm polling.
C2_CaseInsensitiveTerminalLabels ==
    /\ pc = "sleep" => Lower(status) \notin {"succeeded", "failed"}
    /\ (pc = "done" /\ Accepted /\ outcome.kind = "return")
         => Lower(status) = "succeeded"
    /\ (pc = "done" /\ Accepted /\ outcome.exc = "Exception")
         => Lower(status) = "failed"

\* C3 (as claimed): when a poll reports Failed, the failure handed to the
\* caller of delete_vm, and the error object of delete_vm_tool, carry the
\* body of that poll.
C3_FailureCarriesBody ==
    (pc = "done" /\ Accepted /\ IsFailed(status) /\ outcome.kind = "raise"
       /\ outcome.exc = "Exception")
      => (outcome.val = pj /\ (tool = "delete_vm_tool" => result.val = pj))

\* C4 (as claimed): when the compute PUT is answered 202, the chain is
\* reported complete only once the accepted operation was polled to a
\* terminal state.
C4_AcceptedVmIsPolled ==
    (vm.status = 202 /\ pc = "done" /\ outcome.kind = "return")
      => vm.op \in {"Succeeded", "Failed", "TimedOut"}

\* C5 (as claimed): with AZ_RUN_DEPLOY not enabled, every mutating tool
\* issues no PUT and no DELETE and returns the "disabled" response.
C5_AllMutatingToolsGated ==
    (tool \in MutatingTools /\ DeployDisabled(azRunDeploy))
      => /\ puts = 0
         /\ deletes = 0
         /\ (pc = "done" => result = ErrorObject(MsgDisabled))

\* C6 (as claimed): AZ_RUN_DEPLOY unset at server start leaves deployments
\* disabled: deploy_template returns the "disabled" response and attempts
\* nothing.
C6_UnsetFlagDisables ==
    (envAtStart = None /\ tool = "deploy_template")
      => /\ pc = "done"
         /\ result = ErrorObject(MsgDisabled)
         /\ posts = 0 /\ puts = 0

\* C7 (as claimed): no exception leaves a tool; a tool that ended returned
\* a JSON result or an error object.
C7_NoExceptionEscapes ==
    (tool \in Tools /\ pc = "done") => result.kind \in {"json", "error"}

\* C8: once delete_vm polls, the DELETE was answered 202 and the URL polled
\* is the Azure-AsyncOperation header when the response carries one, also
\* with a Location header present; Location is polled only without an
\* Azure-AsyncOperation header.
C8_AsyncOperationPreferred ==
    polls > 0 =>
      /\ r.status = 202
      /\ Present(r.hA) => polledUrl = r.hA
      /\ polledUrl = r.hL => ~Present(r.hA)
      /\ polledUrl \in {r.hA, r.hL}

C8_Witness ==
    /\ polls > 0
    /\ r.hA = OpUrl /\ r.hL = LocUrl
    /\ polledUrl = OpUrl

\* The first present field in the order status, properties.status,
\* properties.provisioningState; None when there is none.
FirstPresent(b) ==
    IF Present(b.status) THEN b.status
    ELSE IF b.props = "object" /\ Present(b.pstatus) THEN b.pstatus
    ELSE IF b.props = "object" /\ Present(b.prov) THEN b.prov
    ELSE None

C10_ProvisioningSucceededEnds ==
    (pj.tag = "json" /\ pj.props = "object" /\ pj.prov = "Succeeded")
      => (pc = "done" /\ outcome = Return(pj))

\* C10 (amended): a poll body with properties.provisioningState =
\* "Succeeded" and no value in status and in properties.status ends the loop
\* with success on that iteration: delete_vm returns that body, and the call
\* is over (no later GET or sleep).
C10_ProvisioningSucceededEndsWhenFirst ==
    (pj.tag = "json" /\ pj.props = "object" /\ pj.prov = "Succeeded"
       /\ ~Present(pj.status) /\ ~Present(pj.pstatus))
      => /\ pc = "done"
         /\ outcome = Return(pj)
         /\ (tool = "delete_vm_tool" => result = JsonResult(pj))
         /\ ~ENABLED Next

C10_Witness ==
    /\ pj.tag = "json" /\ pj.props = "object" /\ pj.prov = "Succeeded"
    /\ ~Present(pj.status) /\ ~Present(pj.pstatus)
    /\ pc = "done" /\ outcome = Return(pj)
    /\ polls >= 2 /\ sleeps >= 1

\* C11: in delete_vm's poll loop, a poll answered "Succeeded" ends the call
\* with success on that poll, and a call that reports success has issued
\* exactly n+1 poll GETs, n being the number of earlier polls, each of which
\* left the loop going and was followed by one sleep.
C11_SuccessAfterExactlyNPlusOnePolls ==
    /\ (pc = "done" /\ Accepted /\ outcome.kind = "return")
         => (IsSucceeded(status) /\ polls = sleeps + 1)
    /\ (pj.tag = "json" /\ pj.status = "Succeeded")
         => /\ pc = "done"
            /\ outcome = Return(pj)
            /\ result = JsonResult(pj)
            /\ polls = sleeps + 1
    /\ pc = "sleep" => (~IsSucceeded(status) /\ polls = sleeps + 1)

\* Scenario B: three polls leave the loop going, the fourth is "Succeeded".
C11_Witness ==
    /\ pc = "done" /\ Accepted
    /\ outcome = Return(pj) /\ pj.status = "Succeeded"
    /\ polls = 4 /\ sleeps = 3

\* The exceptions a poll attempt itself can raise.
PollRaises == {"ConnectionError", "JSONDecodeError", "AttributeError"}

\* C12 (as claimed): no failed poll attempt is fatal to delete_vm: after a
\* poll GET that failed, whatever the kind of failure, the call is not over
\* with that failure but sleeps and polls again.
C12_FailedPollIsNotFatal ==
    /\ (Accepted /\ polls > 0 /\ pc = "done") => outcome.exc \notin PollRaises
    /\ pc = "sleep_retry" => outcome = NoOutcome

\* ceil(a / b) for positive b.
Ceil(a, b) == (a + b - 1) \div b

C14_DeleteClassification ==
    /\ (pc = "done" /\ r.status \in {200, 204})
         => (outcome.kind = "return" /\ polls = 0)
    /\ polls > 0 => r.status = 202
    /\ (pc = "done" /\ r.status \in DeleteStatuses \ {200, 202, 204})
         => outcome.kind = "raise"

C16_QuotaFallback ==
    /\ Len(chain.pip_bodies) <= 2
    /\ (Len(chain.pip_bodies) = 1 /\ chain.pip_resp = "err_quota") => pc = "pip2"
    /\ Len(chain.pip_bodies) = 2
         => /\ chain.pip_bodies = <<"Basic/Dynamic", "Standard/Static">>
            /\ puts >= 2
            /\ chain.pip_resp \in {"ok_id", "ok_noid"}
                 => /\ chain.public_ip_id
                         = (IF chain.pip_resp = "ok_id" THEN "pip-id" ELSE "pip-url")
                    /\ chain.step = "public_ip" => (pc = "nic" /\ outcome = NoOutcome)
            /\ (chain.step = "public_ip" /\ outcome.kind = "raise")
                 => chain.pip_resp \notin {"ok_id", "ok_noid"}

C16_Witness ==
    /\ tool = "deploy_vm"
    /\ chain.pip_bodies = <<"Basic/Dynamic", "Standard/Static">>
    /\ chain.pip_resp = "ok_id"
    /\ chain.public_ip_id = "pip-id"
    /\ pc = "nic" /\ puts = 2

\* The chain runs: the entry point is one that builds the VM's resources and
\* it was given no NIC to use.
ChainRuns == tool \in {"deploy_vm", "main"} /\ ~Truthy(args.nic_id)

\* s is a prefix of t.
IsPrefix(s, t) == Len(s) <= Len(t) /\ \A i \in 1..Len(s) : s[i] = t[i]

\* C17 (as claimed): when the named virtual network does not exist, the
\* chain issues no request creating a network interface or a VM, and once
\* its existence check was answered it ends with the "not found" error
\* naming the network and the resource group.
C17_MissingVnetAborts ==
    (ChainRuns /\ args.vnet_name \notin ExistingVnets)
      => /\ \A i \in 1..Len(chain.log) : chain.log[i] \notin {"nic", "compute"}
         /\ (\E i \in 1..Len(chain.log) : chain.log[i] = "vnet_check")
              => (pc = "done" /\ result = ErrorObject(MsgVnetNotFound))

\* C18 (as claimed): the requests of the chain follow the order public IP
\* (optional), existence check of the network, network interface, compute,
\* each step issued once and none skipped.
C18_FixedOrder ==
    ChainRuns
      => \/ IsPrefix(chain.log, <<"public_ip", "vnet_check", "nic", "compute">>)
         \/ IsPrefix(chain.log, <<"vnet_check", "nic", "compute">>)

\* C19: when a step of deploy_vm's chain fails (public IP, network
\* interface or compute), the tool is over at once: it returns the error
\* object of that failure and no request of a later step was or will be
\* issued.
C19_FailFast ==
    (tool = "deploy_vm" /\ chain.step /= "none" /\ outcome.kind = "raise")
      => /\ pc = "done"
         /\ result = ErrorObject(outcome.msg)
         /\ ~ENABLED Next
         /\ chain.step = "public_ip"
              => (chain.log = <<"public_ip">> /\ puts = Len(chain.pip_bodies))
         /\ chain.step = "nic"
              => /\ \A i \in 1..Len(chain.log) : chain.log[i] /= "compute"
                 /\ puts = Len(chain.pip_bodies) + 1

C19_Witness ==
    /\ tool = "deploy_vm" /\ pc = "done"
    /\ chain.step = "nic" /\ outcome.kind = "raise"
    /\ chain.public_ip_id /= None
    /\ result.kind = "error"

\* C20: deploy_vm issues no DELETE on any path, and an identifier the chain
\* obtained (public IP, network interface) stays as it is to the end.
C20_NoRollback ==
    /\ [](tool = "deploy_vm" => deletes = 0)
    /\ [][tool = "deploy_vm"
            => /\ chain.public_ip_id /= None
                    => chain'.public_ip_id = chain.public_ip_id
               /\ chain.nic_id_created /= None
                    => chain'.nic_id_created = chain.nic_id_created]_vars

C20_Witness ==
    /\ tool = "deploy_vm" /\ pc = "done"
    /\ outcome.kind = "raise" /\ chain.step = "compute"
    /\ chain.public_ip_id /= None /\ chain.nic_id_created /= None
    /\ deletes = 0 /\ puts >= 2

\* The category of a code "Category/value"; a code that is no such string
\* (null, missing, without a slash) has none.
HasCategoryPowerState(rec) ==
    rec.code \in {"PowerState/running", "PowerState/deallocated"}

\* The value after "PowerState/" of the first record of category
\* PowerState, None when there is none.
RECURSIVE FirstPowerState(_, _)
FirstPowerState(l, i) ==
    IF i > Len(l) THEN None
    ELSE IF HasCategoryPowerState(l[i])
         THEN (IF l[i].code = "PowerState/running" THEN "running" ELSE "deallocated")
    ELSE FirstPowerState(l, i + 1)

\* C21 (as claimed): for every instance view the interpreter returns the
\* value of the first record of category PowerState, None when there is
\* none or the list is empty, null or missing, and it never raises; the
\* wrapper get_vm_power_state_safe, once it fetched the view, returns the
\* same.
C21_PowerStateOfFirstRecord ==
    (called = "get_vm_power_state"
       \/ (called = "get_vm_power_state_safe" /\ ret.network = 2))
      => /\ ret.kind = "return"
         /\ ret.val = FirstPowerState(StatusesOf(instance_view), 1)

\* The positions inside the poll loop of delete_vm.
InPollLoop == pc \in {"loop", "get", "sleep", "sleep_retry"}

\* The positions before a DELETE: of delete_vm, of delete_deployment and of
\* the runner's clean-up.
DeletePositions == {"delete", "dep_delete", "dep_close"}

\* The initiating request is sent in one step that is never taken again.
SentOnce ==
    /\ pc \in DeletePositions => deletes' = deletes + 1 /\ pc' \notin DeletePositions
    /\ pc \notin DeletePositions => deletes' = deletes
    /\ pc = "token" => posts' = posts + 1 /\ pc' # "token"
    /\ pc # "token" => posts' = posts

\* C24: an invocation sends at most one DELETE and at most one token POST;
\* a delete_vm that reached its poll loop, or ended after it, sent exactly
\* one of each, however many poll GETs it issued; the step that sends the
\* DELETE (the token POST) sends one and is never taken a second time.
C24_InitiatingCallNotRetried ==
    /\ [](deletes <= 1 /\ posts <= 1)
    /\ []((tool = "delete_vm_tool" /\ (InPollLoop \/ polls > 0))
            => deletes = 1 /\ posts = 1)
    /\ [][SentOnce]_vars

\* A delete_vm that timed out after at least two polls and two sleeps.
C24_Witness ==
    /\ tool = "delete_vm_tool" /\ pc = "done"
    /\ outcome = AfterLoop
    /\ polls >= 2 /\ sleeps >= 2
    /\ deletes = 1 /\ posts = 1

\* No provider call of the invocation failed.
NoProviderFailure == outcome.exc \notin {"HTTPError", "JSONDecodeError", "ConnectionError"}

\* C25 (as claimed): when deploy_vm without nic_id is over, came to its
\* compute step and no provider call failed, it issued the compute PUT with
\* the identifier the NIC step returned and gave back that PUT's body, not
\* an error object.
C25_ComputePutUsesCreatedNic ==
    (tool = "deploy_vm" /\ pc = "done" /\ ~Truthy(args.nic_id)
       /\ chain.step = "compute" /\ NoProviderFailure)
      => /\ chain.log[Len(chain.log)] = "compute"
         /\ vm.nic = chain.nic_id_created
         /\ result = JsonResult(outcome.val)

\* The three ends of the poll loop: the terminal body returned, the
\* provider's failure, the timeout.
LoopEnds(o) ==
    \/ o.kind = "return" /\ o.val = pj /\ IsSucceeded(status)
    \/ o = Raise("Exception", MsgFailed)
    \/ o = AfterLoop

\* Every delete_vm that was started is over at some time.
DeleteVmTerminates == (tool = "delete_vm_tool") ~> (pc = "done")

\* C26 (as claimed): a delete_vm that polled and is over ended in success,
\* in the provider's failure or in the timeout, whatever the polls brought.
C26_LoopEndsInOneOfThree ==
    (tool = "delete_vm_tool" /\ pc = "done" /\ polls > 0) => LoopEnds(outcome)

\* A sleep lasts poll_interval and is taken after a poll only.
SleepStep ==
    sleeps' = sleeps + 1
      => /\ pc \in {"sleep", "sleep_retry"}
         /\ now' = now + args.poll_interval
         /\ polls' = polls

\* C27: in delete_vm the sleeps and the poll GETs alternate, beginning with
\* a poll: before a poll as many sleeps as polls were made, after a pending
\* label or an error status one sleep is due, and an invocation that ends
\* on a poll (terminal label or exception) does not sleep after it; every
\* sleep lasts poll_interval.
C27_OneSleepBetweenPolls ==
    /\ [](tool = "delete_vm_tool"
            => /\ pc \in {"loop", "get"} => sleeps = polls
               /\ pc \in {"sleep", "sleep_retry"} => polls = sleeps + 1
               /\ (pc = "done" /\ polls > 0)
                    => sleeps = (IF outcome = AfterLoop THEN polls ELSE polls - 1))
    /\ [][tool = "delete_vm_tool" => SleepStep]_vars

\* A second poll, made one sleep after the first, was answered with an
\* error status and its sleep is due.
C27_Witness ==
    /\ tool = "delete_vm_tool" /\ pc = "sleep_retry"
    /\ polls = 2 /\ sleeps = 1
    /\ now >= args.poll_interval

\* The failures of the first public IP PUT that are not the quota code.
OtherPipFailures == {"err_other", "err_undecodable", "conn_error"}

\* C28: the second public IP PUT is issued only after the first was
\* answered with the code IPv4BasicSkuPublicIpCountLimitReached; after any
\* other failure of the first PUT the invocation is over with that error,
\* having issued one PUT.
C28_FallbackOnQuotaCodeOnly ==
    /\ []((tool \in {"deploy_vm", "main"} /\ Len(chain.pip_bodies) = 1
             /\ chain.pip_resp \in OtherPipFailures)
            => /\ pc = "done"
               /\ outcome = PutFailure(chain.pip_resp)
               /\ puts = 1
               /\ ~ENABLED Next)
    /\ [][Len(chain'.pip_bodies) = 2 /\ Len(chain.pip_bodies) = 1
            => chain.pip_resp = "err_quota"]_vars

\* deploy_vm ended on a first PUT answered with another error code.
C28_Witness ==
    /\ tool = "deploy_vm" /\ pc = "done"
    /\ chain.pip_resp = "err_other"
    /\ chain.pip_bodies = <<FirstBody>>
    /\ result = ErrorObject(PutFailure("err_other").msg)

\* The step named was issued.
Issued(step) == \E i \in 1..Len(chain.log) : chain.log[i] = step

\* C29: the NIC request carries a public IP reference exactly when the
\* public IP step was issued (and so succeeded); the reference is the
\* identifier that step returned; with no_public_ip no public IP request
\* is issued.
C29_NicCarriesCreatedPublicIp ==
    tool \in {"deploy_vm", "main"}
      => /\ Issued("nic")
              => /\ (chain.nic_pip # None) = Issued("public_ip")
                 /\ Issued("public_ip")
                      => /\ chain.nic_pip = IdOf(chain.pip_resp, "pip")
                         /\ chain.pip_resp \in {"ok_id", "ok_noid"}
         /\ args.no_public_ip => chain.pip_bodies = <<>> /\ ~Issued("public_ip")

\* A NIC request that carries the identifier of the public IP created by
\* the fallback PUT.
C29_Witness ==
    /\ tool = "deploy_vm" /\ ~args.no_public_ip
    /\ Issued("nic")
    /\ Len(chain.pip_bodies) = 2
    /\ chain.nic_pip = "pip-id"

\* C30 (as claimed): deploy_vm called with a nic_id that came to its
\* compute step issued one mutating request, the compute PUT referencing
\* that nic_id, and no public IP or NIC request.
C30_SuppliedNicOnlyComputePut ==
    (tool = "deploy_vm" /\ Truthy(args.nic_id) /\ pc = "done"
       /\ chain.step = "compute")
      => /\ chain.log = <<"compute">>
         /\ chain.pip_bodies = <<>>
         /\ puts = 1 /\ deletes = 0
         /\ vm.nic = args.nic_id

\* One event given to a call of delete_vm run on its own.
SeqStep(st, e) ==
    CASE e.ev = "call" -> AfterCall(st, e)
      [] e.ev = "delete" -> AfterDelete(st, e.resp, e.t)
      [] e.ev = "clock" -> AfterTest(AfterSleep(st), e.t)
      [] e.ev = "poll" -> AfterPoll(st, [fail |-> e.fail, body |-> e.body])

\* A call of delete_vm run on its own and given the events of h from k on.
RECURSIVE Replay(_, _, _)
Replay(st, h, k) == IF k > Len(h) THEN st ELSE Replay(SeqStep(st, h[k]), h, k + 1)

\* Invocation i did what a call run on its own does with what i was given.
OwnInputsOnly(i) ==
    LET alone == Replay(NoLocals, calls[i].hist, 1)
    IN /\ calls[i].outcome = alone.outcome
       /\ calls[i].polls = alone.polls
       /\ (calls[i].pc = "done") = (alone.pc = "done")

\* A step of one invocation leaves the other's locals and record alone.
OthersUntouched ==
    \A i \in Procs :
        calls'[i] # calls[i]
          => \A j \in Procs \ {i} : calls'[j] = calls[j] /\ frames'[j] = frames[j]

FieldMissing(c) ==
    \E f \in {"tenant", "client_id", "client_secret", "subscription"} :
        c[f] \in {None, ""}

\* C22 (as claimed): with a credential field missing or empty, from_env,
\* the constructor and get_access_token all fail with a configuration
\* error and send nothing.
C22_MissingFieldFailsBeforeNetwork ==
    (called \in {"from_env", "__init__", "get_access_token"} /\ FieldMissing(creds))
      => /\ ret.kind = "raise"
         /\ ret.exc = "RuntimeError"
         /\ ret.network = 0

====
